---- MODULE Spec2Model ----
(***************************************************************************)
(* State-machine model of src/app.py (Streamlit MCP chat front-end).       *)
(* One script run of main() is a chain of steps driven by pc; between two  *)
(* runs the application waits for a user event (pc = "idle" or "halted").  *)
(***************************************************************************)
EXTENDS Integers, Sequences, FiniteSets, TLC

(* ---------------- bounds of the model ---------------- *)
MaxServers == 2
MaxMsgs == 3

(* ---------------- input domains ---------------- *)
NameAt == <<"alpha", "beta", "gamma", "delta">>
\* key sets of one backend entry: the empty object, the optional key alone,
\* either required key alone, both required keys without and with the optional one
FieldSets == {{}, {"env"}, {"command"}, {"args"}, {"command", "args"},
              {"command", "args", "env"}}
Prompts == {"p1"}
Replies == {"r1"}
ConfigStatuses == {"ok", "missing", "badjson", "nokey"}

\* the 'mcpServers' mapping: entries in file order, keys distinct
Configs ==
  UNION {{[i \in 1..n |-> [name |-> NameAt[i], fields |-> f[i]]] : f \in [1..n -> FieldSets]}
         : n \in 0..MaxServers}

NotSet == "<unset>"
NoPrompt == "<none>"

VARIABLES
  configFile,             \* state of mcp.json on disk
  mcpServers,             \* mcp_config['mcpServers'], in file order
  hasChat,                \* 'chat' in st.session_state
  messages,               \* st.session_state.chat['messages']
  state_selected_server,  \* st.session_state.selected_server (NotSet if absent)
  selIdx,                 \* selectbox widget state (1-based index)
  server_names,           \* options offered by the selectbox in this run
  selected_server,        \* main(): selected_server
  server_config,          \* main(): server_config (set of keys; {} is the empty dict)
  server_params,          \* main(): server_params ("None" or "params")
  pc,                     \* position of the script run
  event,                  \* widget event that triggered this run
  prompt,                 \* value returned by st.chat_input in this run
  session,                \* backend connection: "closed" or "open"
  sessionVal,             \* value bound by 'async with get_mcp_session(...) as session'
  connAttempts,           \* connections attempted in this run
  connOutcome,            \* how get_mcp_session's connection went in this run
  genOutcome,             \* how generate_content went in this run
  contents,               \* contents passed to generate_content
  tools,                  \* config.tools was set to [session]
  shown                   \* messages displayed to the user in this run

vars == <<configFile, mcpServers, hasChat, messages, state_selected_server,
          selIdx, server_names, selected_server, server_config, server_params, pc,
          event, prompt, session, sessionVal, connAttempts, connOutcome, genOutcome,
          contents, tools, shown>>

configVars == <<configFile, mcpServers>>
chatVars == <<hasChat, messages>>
selVars == <<server_names, selected_server, server_config, server_params>>
connVars == <<session, sessionVal, connAttempts, connOutcome>>
genVars == <<genOutcome, contents, tools>>

(* ---------------- pure helpers ---------------- *)
Last(s) == s[Len(s)]

Names(servers) == [i \in 1..Len(servers) |-> servers[i].name]

\* main(): server_names = ["None"] + list(mcp_config['mcpServers'].keys())
ServerNames_nosentinel(servers) == Names(servers)
ServerNames(servers) == <<"None">> \o Names(servers)

\* main(): {} if selected_server == "None" else mcp_config['mcpServers'][selected_server]
ServerConfig(servers, sel) ==
  IF sel = "None" THEN {}
  ELSE servers[CHOOSE i \in 1..Len(servers) : servers[i].name = sel].fields

\* validate_server_config: the first missing required field, or "ok"
validate_server_config(config) ==
  IF "command" \notin config THEN "command"
  ELSE IF "args" \notin config THEN "args"
  ELSE "ok"

MissingMsg(field) == IF field = "command" THEN "missing_command" ELSE "missing_args"

\* main(): 'if server_config:' guards create_server_parameters; ValueError is
\* caught and displayed; the expander shows the config or "No server selected."
SelectOutcome(config) ==
  IF config = {} THEN [params |-> "None", shown |-> {"no_server_selected"}]
  ELSE IF validate_server_config(config) = "ok"
       THEN [params |-> "params", shown |-> {"config_json"}]
       ELSE [params |-> "None",
             shown |-> {MissingMsg(validate_server_config(config)),
                        "server_config_error", "config_json"}]

\* load_mcp_config: the message displayed before st.stop()
LoadError(status) ==
  CASE status = "missing" -> "config_not_found"
    [] status = "badjson" -> "invalid_json"
    [] status = "nokey" -> "config_error"

\* main(): condition of "Reinitialize session on server change"
NeedsInspection_always(recorded, selected) == TRUE
NeedsInspection(recorded, selected) == recorded = NotSet \/ recorded # selected

UserTurn(p) == [role |-> "user", content |-> p]
AssistantTurn(t) == [role |-> "assistant", content |-> t]

\* main(): st.session_state.chat['messages'].append({'role': 'user', ...})
AppendUserTurn_skip(msgs, p) == msgs
AppendUserTurn(msgs, p) == Append(msgs, UserTurn(p))

\* send_message_with_mcp: append of the assistant reply
AppendReply_front(msgs, t) == <<AssistantTurn(t)>> \o msgs
AppendReply(msgs, t) == Append(msgs, AssistantTurn(t))

\* send_message_with_mcp: role mapping of one transcript turn
ContentOf(msg) ==
  [role |-> IF msg.role = "assistant" THEN "model" ELSE "user", text |-> msg.content]

\* send_message_with_mcp: contents built from the stored transcript plus the prompt
BuildContents(msgs, p) ==
  [i \in 1..Len(msgs) |-> ContentOf(msgs[i])] \o <<[role |-> "user", text |-> p]>>

\* get_mcp_session: entering the context with non-empty server_params
ConnectResult_misordered(outcome) ==
  CASE outcome = "ok" -> [session |-> "open", val |-> "session", shown |-> {}, attempts |-> 1]
    [] outcome = "timeout" -> [session |-> "closed", val |-> "None", shown |-> {"conn_failed"},
                           attempts |-> 1]
    [] outcome = "fail" -> [session |-> "closed", val |-> "None", shown |-> {"conn_failed"},
                           attempts |-> 1]
ConnectResult(outcome) ==
  CASE outcome = "ok" -> [session |-> "open", val |-> "session", shown |-> {}, attempts |-> 1]
    [] outcome = "timeout" -> [session |-> "closed", val |-> "None", shown |-> {"conn_timeout"},
                           attempts |-> 1]
    [] outcome = "fail" -> [session |-> "closed", val |-> "None", shown |-> {"conn_failed"},
                           attempts |-> 1]

\* get_mcp_session: an exception of the 'async with' body is thrown into the
\* generator at the yield where it is suspended.  At 'yield session' it unwinds
\* both library contexts, is caught by the generator's own except clauses, and
\* the second yield makes contextlib raise RuntimeError.
ThrowInto_leak(co, exc) ==
  IF co = "ok"
  THEN [session |-> "open", raises |-> exc, shown |-> {}]
  ELSE [session |-> "closed", raises |-> exc, shown |-> {}]
ThrowInto(co, exc) ==
  IF co = "ok"
  THEN [session |-> "closed", raises |-> "RuntimeError",
        shown |-> {IF exc = "TimeoutError" THEN "conn_timeout" ELSE "conn_failed"}]
  ELSE [session |-> "closed", raises |-> exc, shown |-> {}]

\* send_message_with_mcp: except clauses
SendExcept(exc) == IF exc = "TimeoutError" THEN "gen_timeout" ELSE "send_error"

\* safe_inspect_server: display of one list operation
ListOutcomes == {"ok", "timeout", "error"}
ListMsg(kind, outcome) ==
  CASE outcome = "ok" -> kind \o "_list"
    [] outcome = "timeout" -> kind \o "_timeout"
    [] outcome = "error" -> kind \o "_failed"

(* ---------------- initial state ---------------- *)
Init ==
  /\ configFile \in ConfigStatuses
  /\ mcpServers \in (IF configFile = "ok" THEN Configs ELSE {<<>>})
  /\ hasChat = FALSE
  /\ messages = <<>>
  /\ state_selected_server = NotSet
  /\ selIdx = 1
  /\ server_names = <<>>
  /\ selected_server = "None"
  /\ server_config = {}
  /\ server_params = "None"
  /\ pc = "start"
  /\ event = "none"
  /\ prompt = NoPrompt
  /\ session = "closed"
  /\ sessionVal = "None"
  /\ connAttempts = 0
  /\ connOutcome = "none"
  /\ genOutcome = "none"
  /\ contents = <<>>
  /\ tools = FALSE
  /\ shown = {}

(* ---------------- user events (between two script runs) ---------------- *)
\* a widget event starts a fresh script run: the page and the locals are reset
BeginRun(e, p) ==
  /\ pc' = "start"
  /\ event' = e
  /\ prompt' = p
  /\ shown' = {}
  /\ sessionVal' = "None"
  /\ connAttempts' = 0
  /\ connOutcome' = "none"
  /\ genOutcome' = "none"
  /\ contents' = <<>>
  /\ tools' = FALSE
  /\ UNCHANGED <<configVars, chatVars, state_selected_server, selVars, session>>

\* st.button("New Chat") is rendered before the configuration is loaded
ClickNewChat ==
  /\ pc \in {"idle", "halted"}
  /\ BeginRun("new_chat", NoPrompt)
  /\ UNCHANGED selIdx

\* st.selectbox("Select MCP Server", server_names): the user picks another option
ChangeSelection ==
  /\ pc = "idle"
  /\ \E i \in 1..Len(server_names) : i # selIdx /\ selIdx' = i
  /\ BeginRun("select", NoPrompt)

\* st.chat_input returns a non-empty prompt
SubmitPrompt ==
  /\ pc = "idle"
  /\ Len(messages) < MaxMsgs
  /\ \E p \in Prompts : BeginRun("prompt", p)
  /\ UNCHANGED selIdx

(* ---------------- main(): sidebar ---------------- *)
\* create_new_chat followed by st.rerun(); chat['server'] is written here and
\* read nowhere, so only chat['messages'] is kept
CreateNewChatAndRerun ==
  /\ hasChat' = TRUE
  /\ messages' = <<>>
  /\ pc' = "start"
  /\ event' = "none"
  /\ prompt' = NoPrompt
  /\ UNCHANGED <<configVars, state_selected_server, selIdx, selVars, connVars, genVars, shown>>

EnsureChat ==
  /\ pc = "start"
  /\ ~hasChat
  /\ CreateNewChatAndRerun

NewChat ==
  /\ pc = "start"
  /\ hasChat
  /\ event = "new_chat"
  /\ CreateNewChatAndRerun

\* load_mcp_config: st.error + st.stop()
LoadConfigStop ==
  /\ pc = "start"
  /\ hasChat
  /\ event # "new_chat"
  /\ configFile # "ok"
  /\ shown' = {LoadError(configFile)}
  /\ pc' = "halted"
  /\ UNCHANGED <<configVars, chatVars, state_selected_server, selIdx, selVars, event, prompt,
                 connVars, genVars>>

\* st.selectbox: the option at the widget's index
SelectBox(options, idx) == IF idx \in 1..Len(options) THEN options[idx] ELSE "None"

SelectServer ==
  /\ pc = "start"
  /\ hasChat
  /\ event # "new_chat"
  /\ configFile = "ok"
  /\ server_names' = ServerNames(mcpServers)
  /\ selected_server' = SelectBox(server_names', selIdx)
  /\ server_config' = ServerConfig(mcpServers, selected_server')
  /\ LET o == SelectOutcome(server_config')
     IN /\ server_params' = o.params
        /\ shown' = o.shown
        /\ pc' = "check"
  /\ UNCHANGED <<configVars, chatVars, state_selected_server, selIdx, event, prompt,
                 connVars, genVars>>

(* ---------------- main(): reinitialize session on server change ---------------- *)
CheckServerChange ==
  /\ pc = "check"
  /\ pc' = IF NeedsInspection(state_selected_server, selected_server) THEN "inspect" ELSE "render"
  /\ UNCHANGED <<configVars, chatVars, state_selected_server, selIdx, selVars, event, prompt,
                 connVars, genVars, shown>>

\* get_mcp_session entered with server_params set: one connection attempt
Connect(next) ==
  \E o \in {"ok", "timeout", "fail"} :
    /\ connOutcome' = o
    /\ connAttempts' = connAttempts + ConnectResult(o).attempts
    /\ session' = ConnectResult(o).session
    /\ sessionVal' = ConnectResult(o).val
    /\ shown' = shown \cup ConnectResult(o).shown
    /\ pc' = next

\* initialize_session_safely: 'if not server_params: return'
InspectSkip ==
  /\ pc = "inspect"
  /\ server_params = "None"
  /\ pc' = "record"
  /\ UNCHANGED <<configVars, chatVars, state_selected_server, selIdx, selVars, event, prompt,
                 connVars, genVars, shown>>

InspectConnect ==
  /\ pc = "inspect"
  /\ server_params # "None"
  /\ Connect("inspecting")
  /\ UNCHANGED <<configVars, chatVars, state_selected_server, selIdx, selVars, event, prompt,
                 genVars>>

\* safe_inspect_server: three list calls, each caught on its own; then scope exit
SafeInspectServer ==
  /\ pc = "inspecting"
  /\ sessionVal = "session"
  /\ \E a, b, c \in ListOutcomes :
       shown' = shown \cup {ListMsg("prompts", a), ListMsg("resources", b), ListMsg("tools", c)}
  /\ session' = "closed"
  /\ pc' = "record"
  /\ UNCHANGED <<configVars, chatVars, state_selected_server, selIdx, selVars, event, prompt,
                 sessionVal, connAttempts, connOutcome, genVars>>

\* initialize_session_safely: 'if session:' is false after a failed connection
InspectNoSession ==
  /\ pc = "inspecting"
  /\ sessionVal = "None"
  /\ pc' = "record"
  /\ UNCHANGED <<configVars, chatVars, state_selected_server, selIdx, selVars, event, prompt,
                 connVars, genVars, shown>>

\* main(): st.session_state.selected_server = selected_server
RecordSelection ==
  /\ pc = "record"
  /\ state_selected_server' = selected_server
  /\ pc' = "render"
  /\ UNCHANGED <<configVars, chatVars, selIdx, selVars, event, prompt, connVars, genVars, shown>>

(* ---------------- main(): chat history and user input ---------------- *)
NoInput ==
  /\ pc = "render"
  /\ event # "prompt"
  /\ pc' = "idle"
  /\ UNCHANGED <<configVars, chatVars, state_selected_server, selIdx, selVars, event, prompt,
                 connVars, genVars, shown>>

HandleInput ==
  /\ pc = "render"
  /\ event = "prompt"
  /\ messages' = AppendUserTurn(messages, prompt)
  /\ pc' = "send"
  /\ UNCHANGED <<configVars, hasChat, state_selected_server, selIdx, selVars, event,
                 prompt, connVars, genVars, shown>>

(* ---------------- send_message_with_mcp ---------------- *)
\* get_mcp_session: 'if not server_params: yield None'
SendNoServer ==
  /\ pc = "send"
  /\ server_params = "None"
  /\ connOutcome' = "skipped"
  /\ sessionVal' = "None"
  /\ pc' = "build"
  /\ UNCHANGED <<configVars, chatVars, state_selected_server, selIdx, selVars, event, prompt,
                 session, connAttempts, genVars, shown>>

SendConnect ==
  /\ pc = "send"
  /\ server_params # "None"
  /\ Connect("build")
  /\ UNCHANGED <<configVars, chatVars, state_selected_server, selIdx, selVars, event, prompt,
                 genVars>>

\* contents and config are built, generate_content is called
GenerateCall ==
  /\ pc = "build"
  /\ contents' = BuildContents(messages, prompt)
  /\ tools' = (sessionVal # "None")
  /\ pc' = "gen_wait"
  /\ UNCHANGED <<configVars, chatVars, state_selected_server, selIdx, selVars, event, prompt,
                 connVars, genOutcome, shown>>

\* a non-empty response.text
GenerateReply ==
  /\ pc = "gen_wait"
  /\ \E r \in Replies : messages' = AppendReply(messages, r)
  /\ genOutcome' = "ok"
  /\ session' = "closed"
  /\ pc' = "idle"
  /\ UNCHANGED <<configVars, hasChat, state_selected_server, selIdx, selVars, event,
                 prompt, sessionVal, connAttempts, connOutcome, contents, tools, shown>>

\* no response or empty response.text
GenerateEmpty ==
  /\ pc = "gen_wait"
  /\ genOutcome' = "empty"
  /\ shown' = shown \cup {"empty_response"}
  /\ session' = "closed"
  /\ pc' = "idle"
  /\ UNCHANGED <<configVars, chatVars, state_selected_server, selIdx, selVars, event, prompt,
                 sessionVal, connAttempts, connOutcome, contents, tools>>

\* wait_for raises TimeoutError after 30s, or generate_content raises
GenerateRaise ==
  /\ pc = "gen_wait"
  /\ \E exc \in {"TimeoutError", "Exception"} :
       LET t == ThrowInto(connOutcome, exc)
       IN /\ genOutcome' = (IF exc = "TimeoutError" THEN "timeout" ELSE "error")
          /\ shown' = shown \cup t.shown \cup {SendExcept(t.raises)}
          /\ session' = t.session
  /\ pc' = "idle"
  /\ UNCHANGED <<configVars, chatVars, state_selected_server, selIdx, selVars, event, prompt,
                 sessionVal, connAttempts, connOutcome, contents, tools>>

(* ---------------- specification ---------------- *)
ScriptStep ==
  \/ EnsureChat \/ NewChat \/ LoadConfigStop \/ SelectServer
  \/ CheckServerChange \/ InspectSkip \/ InspectConnect \/ SafeInspectServer
  \/ InspectNoSession \/ RecordSelection
  \/ NoInput \/ HandleInput
  \/ SendNoServer \/ SendConnect \/ GenerateCall
  \/ GenerateReply \/ GenerateEmpty \/ GenerateRaise

Next ==
  \/ ClickNewChat \/ ChangeSelection \/ SubmitPrompt
  \/ EnsureChat \/ NewChat \/ LoadConfigStop \/ SelectServer
  \/ CheckServerChange \/ InspectSkip \/ InspectConnect \/ SafeInspectServer
  \/ InspectNoSession \/ RecordSelection
  \/ NoInput \/ HandleInput
  \/ SendNoServer \/ SendConnect \/ GenerateCall
  \/ GenerateReply \/ GenerateEmpty \/ GenerateRaise

Spec == Init /\ [][Next]_vars

\* a script run executes to completion: every await is bounded by a timeout
FairSpec == Spec /\ WF_vars(ScriptStep)

TypeOK ==
  /\ pc \in {"start", "halted", "check", "inspect", "inspecting", "record", "render",
             "send", "build", "gen_wait", "idle"}
  /\ session \in {"open", "closed"}
  /\ Len(messages) <= MaxMsgs + 1

(* ======================= properties ======================= *)
\* positions of a run at which the sidebar has been evaluated
PostSelect == {"check", "inspect", "inspecting", "record", "render", "send", "build",
               "gen_wait", "idle"}

\* the entry picked in the selectbox lacks 'command' or 'args'
InvalidEntrySelected ==
  /\ selIdx > 1
  /\ selIdx - 1 <= Len(mcpServers)
  /\ ~({"command", "args"} \subseteq mcpServers[selIdx - 1].fields)

\* C1: with N configured backends the selectbox offers N+1 options, "None"
\* first and the backend names in configuration order after it; with the
\* sentinel selected there are no server parameters and nothing is connected.
C1_ServerOptions ==
  pc \in PostSelect =>
    /\ Len(server_names) = Len(mcpServers) + 1
    /\ server_names[1] = "None"
    /\ \A i \in 1..Len(mcpServers) : server_names[i + 1] = mcpServers[i].name
    /\ (selIdx = 1 =>
          /\ selected_server = "None"
          /\ server_params = "None"
          /\ connAttempts = 0
          /\ session = "closed")

C1_Witness ==
  /\ pc = "idle"
  /\ Len(mcpServers) >= 2
  /\ selIdx = 1
  /\ event = "prompt"
  /\ genOutcome = "ok"

\* C2: selecting an entry that lacks 'command' or 'args' (one or both) shows a
\* validation error, leaves server_params None and nothing is ever connected.
C2_MissingFieldError ==
  (pc \in PostSelect /\ InvalidEntrySelected) =>
    /\ {"missing_command", "missing_args"} \cap shown # {}
    /\ server_params = "None"
    /\ connAttempts = 0

\* C3: when initialization times out there is exactly one connection attempt,
\* the connection-timeout message is shown, the caller gets a None session, a
\* send goes on to generate without tools, and the run always terminates.
C3_InitTimeout ==
  /\ [](connOutcome = "timeout" =>
          /\ connAttempts = 1
          /\ "conn_timeout" \in shown
          /\ sessionVal = "None"
          /\ session = "closed"
          /\ (pc = "gen_wait" => ~tools))
  /\ ((pc = "build" /\ connOutcome = "timeout") ~> (pc = "gen_wait" /\ ~tools))
  /\ ((connOutcome = "timeout") ~> (pc = "idle"))

C3_Witness ==
  /\ pc = "idle"
  /\ event = "prompt"
  /\ connOutcome = "timeout"
  /\ genOutcome = "ok"

\* C4: within one chat the transcript only grows at its end, one turn at a
\* time: the user turn before generate_content is called, the reply directly
\* after the user turn of the prompt it answers.
C4_TranscriptOrder ==
  /\ [](pc \in {"send", "build", "gen_wait"} =>
          Len(messages) > 0 /\ Last(messages) = UserTurn(prompt))
  /\ [][\/ (pc = "start" /\ (~hasChat \/ event = "new_chat"))
        \/ messages' = messages
        \/ /\ pc = "render"
           /\ messages' = Append(messages, UserTurn(prompt))
           /\ genOutcome' = "none"
           /\ contents' = <<>>
        \/ /\ pc = "gen_wait"
           /\ Len(messages) > 0
           /\ Last(messages) = UserTurn(prompt)
           /\ \E r \in Replies : messages' = Append(messages, AssistantTurn(r))]_vars

C4_Witness ==
  /\ pc = "idle"
  /\ Len(messages) = 4
  /\ messages[1].role = "user"
  /\ messages[2].role = "assistant"
  /\ messages[3].role = "user"
  /\ messages[4].role = "assistant"

\* C5: a generation timeout shows the generation-timeout message, appends no
\* assistant turn, and (with a session opened) shows no connection failure.
C5_GenTimeoutReported ==
  (pc = "idle" /\ genOutcome = "timeout") =>
    /\ "gen_timeout" \in shown
    /\ Len(messages) > 0
    /\ Last(messages) = UserTurn(prompt)
    /\ (connOutcome = "ok" => {"conn_timeout", "conn_failed"} \cap shown = {})

\* C6: a backend session is open only inside the scope of the action that
\* opened it in this run; outside that scope, and between runs, none is open.
C6_SessionScoped ==
  /\ (session = "open" =>
        /\ pc \in {"inspecting", "build", "gen_wait"}
        /\ sessionVal = "session"
        /\ connOutcome = "ok"
        /\ connAttempts = 1)
  /\ (pc \in {"idle", "halted", "start", "record", "render"} => session = "closed")

C6_Witness ==
  /\ pc = "idle"
  /\ connOutcome = "ok"
  /\ genOutcome = "timeout"
  /\ session = "closed"

\* C7: only a configuration-load failure halts the run; an invalid entry, a
\* connection, listing or generation failure and an empty response are each
\* reported as a message and the run goes on.
C7_OnlyLoadFailuresHalt ==
  /\ (pc = "halted" => configFile \in {"missing", "badjson", "nokey"})
  /\ ((pc \in PostSelect /\ InvalidEntrySelected) =>
        {"missing_command", "missing_args", "server_config_error"} \cap shown # {})
  /\ (connOutcome = "timeout" => "conn_timeout" \in shown)
  /\ (connOutcome = "fail" => "conn_failed" \in shown)
  /\ (genOutcome \in {"timeout", "error"} => {"gen_timeout", "send_error"} \cap shown # {})
  /\ (genOutcome = "empty" => "empty_response" \in shown)

\* C8 (as stated): the roles of the transcript alternate, starting with user.
C8_RolesAlternate ==
  \A i \in 1..Len(messages) :
    messages[i].role = (IF i % 2 = 1 THEN "user" ELSE "assistant")

\* C8 (amended): the transcript starts with a user turn and every assistant
\* turn directly follows a user turn; two user turns may be adjacent.
C8_AssistantFollowsUser ==
  /\ (Len(messages) > 0 => messages[1].role = "user")
  /\ \A i \in 1..Len(messages) :
       messages[i].role = "assistant" => (i > 1 /\ messages[i - 1].role = "user")

C8_Witness ==
  /\ Len(messages) >= 3
  /\ messages[1].role = "user"
  /\ messages[2].role = "user"
  /\ messages[3].role = "assistant"

\* C9: the contents passed to the model are the prior turns in order with the
\* roles mapped, followed by the current prompt exactly once.
C9_PromptOnce ==
  pc = "gen_wait" =>
    contents = [i \in 1..(Len(messages) - 1) |-> ContentOf(messages[i])]
                 \o <<[role |-> "user", text |-> prompt]>>

\* C10: inspection runs exactly when the selection differs from the recorded
\* one (or none is recorded); past the check the recorded selection equals the
\* current one, so a chat turn or New Chat with the same selection inspects nothing.
C10_InspectOnChange ==
  /\ [](pc \in {"render", "send", "build", "gen_wait", "idle"} =>
          state_selected_server = selected_server)
  /\ [][pc = "check" =>
          ((pc' = "inspect") <=>
             (state_selected_server = NotSet \/ state_selected_server # selected_server))]_vars
  /\ [][(pc = "check" /\ event \in {"prompt", "none"} /\ state_selected_server # NotSet) =>
          pc' = "render"]_vars
  /\ [][(pc' \in {"inspect", "inspecting"} /\ pc # pc') => pc \in {"check", "inspect"}]_vars

C10_Witness ==
  /\ pc = "render"
  /\ event = "prompt"
  /\ server_params = "params"
  /\ connAttempts = 0
  /\ state_selected_server = selected_server
====
